---- MODULE Spec2Model ----
(***************************************************************************)
(* Model of the resilient HTTP request layer of the storefront:            *)
(*   - clientRequest (lib/api/client.js) and serverRequest                 *)
(*     (lib/api/server.js): the retry loops over fetch,                    *)
(*   - the shared helpers handleAPIError, handleResponse and               *)
(*     calculateRetryDelay (lib/api/shared.js),                            *)
(*   - JsonApiClient (services/auth.service.js): request deduplication,    *)
(*     the response cache and the recursive retry,                         *)
(*   - createMemoryCache (utils/auth.utils.js).                            *)
(* Promises are modelled by their state; a timer or a network answer is a  *)
(* step of the environment.                                                *)
(***************************************************************************)
EXTENDS Integers, Sequences, FiniteSets, TLC

\* ------------------------------------------------------------------------
\* Bounds of the model
\* ------------------------------------------------------------------------

\* Largest `retries` option a call of clientRequest / serverRequest is given.
MaxRetries == 4

\* ------------------------------------------------------------------------
\* State
\* ------------------------------------------------------------------------

\* One call of clientRequest / serverRequest.
VARIABLES
    rqPath,       \* "none" before the call, then "client" or "server"
    rqRetries,    \* the `retries` option
    rqAttempt,    \* the loop variable `attempt`
    rqPc,         \* "idle", "fetching" (await fetch), "delaying" (await backoff), "done"
    rqTimer,      \* TRUE while the timeout timer set before the loop is pending
    rqFetches,    \* number of fetch calls made
    rqDelays,     \* the backoff delays waited, in order
    rqLastError,  \* the variable lastError (NoError while undefined)
    rqResult,     \* how the returned promise settled
    rqOutcomes    \* what the network did to each fetch, in order

rqVars == <<rqPath, rqRetries, rqAttempt, rqPc, rqTimer, rqFetches, rqDelays,
            rqLastError, rqResult, rqOutcomes>>

\* The shared JsonApiClient, its module-level cache and its callers.
VARIABLES
    now,              \* Date.now()
    requestCache,     \* the module-level Map, in insertion order
    pendingRequests,  \* this.pendingRequests: a set of [key, op]
    ops,              \* the invocations of request that reached fetch
    callers           \* the top-level calls of request, with what each
                      \* found when it was made (`joined`: what the
                      \* invocation it attached to was doing)

jsonVars == <<now, requestCache, pendingRequests, ops, callers>>

\* A store exercised through its own operations.
VARIABLES
    harness,     \* which store the run exercises: "requestCache" or "memoryCache"
                 \* ("none" while the stores are only used by JsonApiClient)
    memMaxSize,  \* the maxSize createMemoryCache was called with (0: not called)
    memCache,    \* the Map `cache` of createMemoryCache, in insertion order
    storeLast,   \* the last operation on the store: its name, key, the value it
                 \* returned and the key it evicted
    lastHit      \* the key of the last lookup that returned a stored value

storeVars == <<harness, memMaxSize, memCache, storeLast, lastHit>>

\* The headers one request is sent with.
VARIABLES
    hdrSite,    \* who built the headers ("none" before the request)
    hdrCaller,  \* the headers object the caller passed
    hdrSent     \* the headers object handed to fetch

hdrVars == <<hdrSite, hdrCaller, hdrSent>>

\* One useAuth hook instance.
VARIABLES
    isRequestInProgress,  \* isRequestInProgressRef.current
    abortController,      \* abortControllerRef.current: "null", "live" or "aborted"
    authOps               \* the operations called so far, in call order

authVars == <<isRequestInProgress, abortController, authOps>>

\* The rate-limit route, for one key.
VARIABLES
    rateNow,       \* Date.now() on the server
    attempts,      \* attempts.get(key): an entry, or NoEntry
    rateResponse,  \* the answer to the last request
    rateRequests,  \* requests made so far
    rateRun,       \* position of the last request in its run of requests that
                   \* each came within the window of the one before
    ratePrev       \* arrival time of the last request

rateVars == <<rateNow, attempts, rateResponse, rateRequests, rateRun, ratePrev>>

auxVars == <<hdrVars, authVars, rateVars>>

vars == <<rqVars, jsonVars, storeVars, auxVars>>

\* ------------------------------------------------------------------------
\* Errors and responses (lib/api/shared.js)
\* ------------------------------------------------------------------------

\* APIError's `status = null` default.
NoStatus == 0

\* API_ERRORS
API_ERRORS == [TIMEOUT |-> "TIMEOUT", NETWORK |-> "NETWORK", NOT_FOUND |-> "NOT_FOUND",
               SERVER_ERROR |-> "SERVER_ERROR", INVALID_RESPONSE |-> "INVALID_RESPONSE"]

\* new APIError(message, type, status): name is always 'APIError'.
APIError(message, type, status) ==
    [name |-> "APIError", message |-> message, type |-> type, status |-> status]

\* An exception that is no APIError (thrown by fetch or by response.json()):
\* it has a name and a message, and neither type nor status.
RawError(name, message) ==
    [name |-> name, message |-> message, type |-> "none", status |-> NoStatus]

\* `undefined` where an error is expected (lastError before the first catch).
NoError == RawError("undefined", "")

\* A mutant of AbortError: the abort surfaces as a failure to connect.
AbortAsFetchFailed == RawError("TypeError", "fetch failed")

\* The AbortError fetch rejects with when controller.abort() was called.
AbortError == RawError("AbortError", "This operation was aborted")

\* The exceptions fetch itself rejects with when it cannot connect: a TypeError
\* whose message is 'fetch failed' (Node) or 'Failed to fetch' (browsers).
FetchThrows == {RawError("TypeError", "fetch failed"), RawError("TypeError", "Failed to fetch")}

\* The SyntaxError response.json() throws on a body that is no JSON.
JsonSyntaxError == RawError("SyntaxError", "Unexpected token")

\* HTTP statuses the modelled network answers with.
Statuses == {200, 400, 404, 408, 500, 503, 504}

\* What the network does to one fetch: a response (a status, and whether its
\* body parses as JSON), or a rejection of fetch.
FetchOutcomes ==
    [kind : {"response"}, status : Statuses, jsonBody : {TRUE}, err : {AbortError}]
      \cup [kind : {"response"}, status : {200}, jsonBody : {FALSE}, err : {AbortError}]
      \cup [kind : {"throw"}, status : {NoStatus}, jsonBody : {FALSE}, err : FetchThrows]

\* response.ok
ResponseOk(status) == status >= 200 /\ status <= 299

\* handleAPIError(error, ...): THROWS a new APIError for an abort and for
\* 'fetch failed', and returns the error unchanged otherwise.
HandleAPIError(error) ==
    IF error.name = "AbortError"
    THEN [thrown |-> TRUE, err |-> APIError("Request timeout", API_ERRORS.TIMEOUT, NoStatus)]
    ELSE IF error.message = "fetch failed"
    THEN [thrown |-> TRUE,
          err |-> APIError("Network error - Unable to connect to API", API_ERRORS.NETWORK, NoStatus)]
    ELSE [thrown |-> FALSE, err |-> error]

\* A mutant of ErrorTypeOfStatus: the switch is skipped.
ErrorTypeIgnoresStatus(status) == API_ERRORS.SERVER_ERROR

\* A mutant of ErrorTypeOfStatus: errorType starts as NETWORK.
ErrorTypeDefaultsToNetwork(status) ==
    IF status = 404 THEN API_ERRORS.NOT_FOUND
    ELSE IF status = 408 \/ status = 504 THEN API_ERRORS.TIMEOUT
    ELSE API_ERRORS.NETWORK

\* The switch of handleResponse: errorType starts as SERVER_ERROR.
ErrorTypeOfStatus(status) ==
    IF status = 404 THEN API_ERRORS.NOT_FOUND
    ELSE IF status = 408 \/ status = 504 THEN API_ERRORS.TIMEOUT
    ELSE API_ERRORS.SERVER_ERROR

\* handleResponse(response, url): throws an APIError for a response that is
\* not ok, throws what response.json() throws for an unparsable body, and
\* returns the data otherwise.
HandleResponse(outcome) ==
    IF ~ResponseOk(outcome.status)
    THEN [thrown |-> TRUE,
          err |-> APIError("HTTP", ErrorTypeOfStatus(outcome.status), outcome.status)]
    ELSE IF ~outcome.jsonBody
    THEN [thrown |-> TRUE, err |-> JsonSyntaxError]
    ELSE [thrown |-> FALSE, err |-> NoError]

\* 2^n
RECURSIVE Pow2(_)
Pow2(n) == IF n = 0 THEN 1 ELSE 2 * Pow2(n - 1)

Min(a, b) == IF a < b THEN a ELSE b

\* A mutant of calculateRetryDelay: the delay doubles without a ceiling.
DelayWithoutCeiling(attempt, maxDelay) == 1000 * Pow2(attempt)

\* calculateRetryDelay(attempt, maxDelay = 5000)
calculateRetryDelay(attempt, maxDelay) == Min(1000 * Pow2(attempt), maxDelay)

\* The ceiling each path passes: clientRequest passes 3000, serverRequest
\* nothing (the default, 5000).
MaxDelayOf(path) == IF path = "client" THEN 3000 ELSE 5000

\* ------------------------------------------------------------------------
\* clientRequest / serverRequest: one call
\* ------------------------------------------------------------------------

Pending == [state |-> "pending"]
Resolved(v) == [state |-> "resolved", value |-> v]
Rejected(e) == [state |-> "rejected", error |-> e]

RqInit ==
    /\ rqPath = "none"
    /\ rqRetries = 0
    /\ rqAttempt = 0
    /\ rqPc = "idle"
    /\ rqTimer = FALSE
    /\ rqFetches = 0
    /\ rqDelays = <<>>
    /\ rqLastError = NoError
    /\ rqResult = Pending
    /\ rqOutcomes = <<>>

\* A mutant of LastAttempt: the loop gives up one attempt early.
LastAttemptEarly(attempt, retries) == attempt + 1 >= retries

\* `attempt === retries`
LastAttempt(attempt, retries) == attempt = retries

\* The `for` condition `attempt <= retries`
LoopContinues(attempt, retries) == attempt <= retries

\* serverRequest only: `error instanceof APIError && error.type === NOT_FOUND`
\* (tested on the caught error) rethrows it.
NoRetryFor(path, error) ==
    path = "server" /\ error.name = "APIError" /\ error.type = API_ERRORS.NOT_FOUND

\* The error thrown after the last attempt: lastError when it is an APIError,
\* otherwise a new APIError: NETWORK in clientRequest, SERVER_ERROR in
\* serverRequest.
FinalError(path, lastError) ==
    IF lastError.name = "APIError" THEN lastError
    ELSE IF path = "client" THEN APIError("Request failed", API_ERRORS.NETWORK, NoStatus)
    ELSE APIError(lastError.message, API_ERRORS.SERVER_ERROR, NoStatus)

\* A mutant of NewLastError: lastError keeps the error of the first failed attempt.
KeepFirstError(old, returned) == IF old = NoError THEN returned ELSE old

\* `lastError = handleAPIError(...)`: the assignment in the catch block.
NewLastError(old, returned) == returned

\* The catch block of the loop, for the caught `error`.
RqCatch(error) ==
    LET h == HandleAPIError(error)
        le == NewLastError(rqLastError, h.err) IN
    /\ rqTimer' = FALSE
    /\ IF h.thrown
       THEN \* handleAPIError threw inside the catch block: the call rejects
            /\ rqResult' = Rejected(h.err)
            /\ rqPc' = "done"
            /\ UNCHANGED <<rqLastError, rqDelays>>
       ELSE /\ rqLastError' = le
            /\ IF NoRetryFor(rqPath, error)
               THEN /\ rqResult' = Rejected(error)
                    /\ rqPc' = "done"
                    /\ UNCHANGED rqDelays
               ELSE IF LastAttempt(rqAttempt, rqRetries)
               THEN /\ rqResult' = Rejected(FinalError(rqPath, le))
                    /\ rqPc' = "done"
                    /\ UNCHANGED rqDelays
               ELSE /\ rqDelays' = Append(rqDelays,
                                          calculateRetryDelay(rqAttempt, MaxDelayOf(rqPath)))
                    /\ rqPc' = "delaying"
                    /\ UNCHANGED rqResult

\* clientRequest(url, options) / serverRequest(url, options): the timer is
\* set, and the loop runs up to its first `await fetch`.
RqCall ==
    /\ rqPc = "idle"
    /\ \E path \in {"client", "server"}, retries \in 0..MaxRetries :
          /\ rqPath' = path
          /\ rqRetries' = retries
    /\ rqAttempt' = 0
    /\ rqTimer' = TRUE
    /\ rqFetches' = 1
    /\ rqPc' = "fetching"
    /\ UNCHANGED <<rqDelays, rqLastError, rqResult, rqOutcomes>>
    /\ UNCHANGED <<jsonVars, storeVars, auxVars>>

\* The network settles the fetch in flight: clearTimeout, handleResponse,
\* then the return or the catch block.
RqFetchSettles ==
    /\ rqPc = "fetching"
    /\ \E o \in FetchOutcomes :
          /\ rqOutcomes' = Append(rqOutcomes, o)
          /\ IF o.kind = "throw"
             THEN RqCatch(o.err)
             ELSE LET r == HandleResponse(o) IN
                  IF r.thrown
                  THEN RqCatch(r.err)
                  ELSE /\ rqTimer' = FALSE
                       /\ rqResult' = Resolved("data")
                       /\ rqPc' = "done"
                       /\ UNCHANGED <<rqLastError, rqDelays>>
    /\ UNCHANGED <<rqPath, rqRetries, rqAttempt, rqFetches>>
    /\ UNCHANGED <<jsonVars, storeVars, auxVars>>

\* The timeout timer fires while a fetch is in flight: controller.abort()
\* makes fetch reject with an AbortError, which the catch block handles.
RqTimeout ==
    /\ rqPc = "fetching"
    /\ rqTimer
    /\ rqOutcomes' = Append(rqOutcomes,
                            [kind |-> "abort", status |-> NoStatus, jsonBody |-> FALSE,
                             err |-> AbortError])
    /\ RqCatch(AbortError)
    /\ UNCHANGED <<rqPath, rqRetries, rqAttempt, rqFetches>>
    /\ UNCHANGED <<jsonVars, storeVars, auxVars>>

\* The backoff timer fires: attempt++, and the next iteration fetches again
\* (or the loop ends and the function returns undefined).
RqDelayElapsed ==
    /\ rqPc = "delaying"
    /\ rqAttempt' = rqAttempt + 1
    /\ IF LoopContinues(rqAttempt + 1, rqRetries)
       THEN /\ rqFetches' = rqFetches + 1
            /\ rqPc' = "fetching"
            /\ UNCHANGED rqResult
       ELSE /\ rqResult' = Resolved("undefined")
            /\ rqPc' = "done"
            /\ UNCHANGED rqFetches
    /\ UNCHANGED <<rqPath, rqRetries, rqTimer, rqDelays, rqLastError, rqOutcomes>>
    /\ UNCHANGED <<jsonVars, storeVars, auxVars>>

\* ------------------------------------------------------------------------
\* Properties of clientRequest / serverRequest
\* ------------------------------------------------------------------------

\* The outcome of the most recent fetch of the call.
RqLast == rqOutcomes[Len(rqOutcomes)]

RqFailed(o) == o.kind # "response" \/ ~ResponseOk(o.status) \/ ~o.jsonBody

RqAll500 ==
    /\ rqOutcomes # <<>>
    /\ \A i \in 1..Len(rqOutcomes) :
          rqOutcomes[i].kind = "response" /\ rqOutcomes[i].status = 500

\* C3 (as claimed): an attempt answered with HTTP 404 ends the call at once:
\* the call is rejected with NOT_FOUND (status 404), and neither a backoff
\* delay nor another fetch follows the 404.
C3_NotFoundNeverRetried ==
    (rqOutcomes # <<>> /\ RqLast.kind = "response" /\ RqLast.status = 404)
        => /\ rqPc = "done"
           /\ rqResult.state = "rejected"
           /\ rqResult.error.type = API_ERRORS.NOT_FOUND
           /\ rqResult.error.status = 404

\* C7 (as claimed): a call gives up on an attempt ended by the timeout's
\* abort, by a fetch that could not connect, or by a 5xx response only when
\* no attempt remains (attempt = retries); with attempts left it goes on.
C7_TransientFailuresRetried ==
    (/\ rqPc = "done"
     /\ rqOutcomes # <<>>
     /\ \/ RqLast.kind \in {"abort", "throw"}
        \/ RqLast.kind = "response" /\ RqLast.status >= 500)
        => rqAttempt = rqRetries

\* C8: a call whose every attempt is answered with HTTP 500 makes exactly
\* retries + 1 fetches with one backoff delay between consecutive fetches,
\* and is then rejected with an APIError of type SERVER_ERROR and status 500.
C8_All500ExhaustsRetries ==
    RqAll500 =>
        /\ rqPc = "fetching" => Len(rqDelays) = rqFetches - 1
        /\ rqPc = "delaying" => Len(rqDelays) = rqFetches
        /\ rqPc = "done" =>
              /\ rqFetches = rqRetries + 1
              /\ Len(rqDelays) = rqRetries
              /\ rqResult.state = "rejected"
              /\ rqResult.error.name = "APIError"
              /\ rqResult.error.type = API_ERRORS.SERVER_ERROR
              /\ rqResult.error.status = 500

\* C8 witness: a call with retries = 2 was answered 500 three times and ended.
C8_Witness ==
    RqAll500 /\ rqPc = "done" /\ rqRetries = 2 /\ rqFetches = 3 /\ Len(rqDelays) = 2

\* C9: when the call ends on a failed attempt, it is rejected, never
\* resolved, and the APIError it is rejected with is the one of that last
\* attempt: the status and kind of the last response for an HTTP failure,
\* TIMEOUT for an abort, and for an exception that carries no kind the kind
\* the path gives it (NETWORK, or SERVER_ERROR in serverRequest for an
\* exception other than 'fetch failed').
C9_LastErrorSurfaced ==
    (rqPc = "done" /\ rqOutcomes # <<>> /\ RqFailed(RqLast)) =>
        /\ rqResult.state = "rejected"
        /\ rqResult.error.name = "APIError"
        /\ (RqLast.kind = "response" /\ ~ResponseOk(RqLast.status)) =>
              /\ rqResult.error.status = RqLast.status
              /\ rqResult.error.type =
                    (CASE RqLast.status = 404 -> "NOT_FOUND"
                       [] RqLast.status \in {408, 504} -> "TIMEOUT"
                       [] OTHER -> "SERVER_ERROR")
        /\ RqLast.kind = "abort" =>
              rqResult.error.type = "TIMEOUT" /\ rqResult.error.status = NoStatus
        /\ (RqLast.kind = "throw" \/ (RqLast.kind = "response" /\ ResponseOk(RqLast.status))) =>
              /\ rqResult.error.status = NoStatus
              /\ rqResult.error.type =
                    (IF rqPath = "client" \/ RqLast.err.message = "fetch failed"
                     THEN "NETWORK" ELSE "SERVER_ERROR")

\* C9 witness: the last permitted attempt failed with a status other than
\* the one of the attempt before it, after at least one retry.
C9_Witness ==
    /\ rqPc = "done"
    /\ Len(rqOutcomes) >= 2
    /\ rqAttempt = rqRetries
    /\ RqLast.kind = "response" /\ RqLast.status = 503
    /\ rqOutcomes[Len(rqOutcomes) - 1].kind = "response"
    /\ rqOutcomes[Len(rqOutcomes) - 1].status = 500
    /\ rqResult.state = "rejected"

\* C11: the k-th delay a call waited (k from 0, between attempt k and attempt
\* k + 1) is 1000 * 2^k milliseconds when that is below the ceiling of its
\* path (3000 passed by clientRequest, the default 5000 in serverRequest) and
\* the ceiling otherwise; no delay exceeds the ceiling, and no delay is shorter
\* than the one before it.
C11_BackoffDoublesUpToCeiling ==
    LET ceiling == IF rqPath = "client" THEN 3000 ELSE 5000 IN
    \A i \in 1..Len(rqDelays) :
        /\ rqDelays[i] = (IF 1000 * (2 ^ (i - 1)) < ceiling
                          THEN 1000 * (2 ^ (i - 1)) ELSE ceiling)
        /\ rqDelays[i] <= ceiling
        /\ i > 1 => rqDelays[i - 1] <= rqDelays[i]

\* C11 witness: a serverRequest call waited four delays, the last one cut to
\* the ceiling.
C11_Witness ==
    rqPath = "server" /\ rqDelays = <<1000, 2000, 4000, 5000>> /\ rqPc = "fetching"

\* C13 (as claimed): a call that ends on a fetch that threw for a reason other
\* than the abort signal is rejected with an APIError of type NETWORK.
C13_TransportFailureIsNetwork ==
    (rqPc = "done" /\ rqOutcomes # <<>> /\ RqLast.kind = "throw")
        => /\ rqResult.state = "rejected"
           /\ rqResult.error.type = API_ERRORS.NETWORK

\* C14 (as claimed): an attempt answered with a success status and a body that
\* does not parse ends the call at once, rejected with INVALID_RESPONSE: no
\* backoff delay and no further fetch follow it.
C14_UnparsableBodyIsInvalidResponse ==
    (/\ rqOutcomes # <<>>
     /\ RqLast.kind = "response" /\ ResponseOk(RqLast.status) /\ ~RqLast.jsonBody)
        => /\ rqPc = "done"
           /\ rqResult.state = "rejected"
           /\ rqResult.error.type = API_ERRORS.INVALID_RESPONSE

\* The last fetch was answered with a response that is not ok; lastError then
\* holds the error handleResponse threw for it.
RqLastNotOk ==
    rqOutcomes # <<>> /\ RqLast.kind = "response" /\ ~ResponseOk(RqLast.status)

\* C15: for a response that is not ok handleResponse throws one APIError that
\* carries the response's status and one kind of API_ERRORS: NOT_FOUND for
\* status 404, TIMEOUT for 408 and for 504.
C15_StatusMappedToOneKind ==
    RqLastNotOk =>
        /\ rqLastError.name = "APIError"
        /\ rqLastError.status = RqLast.status
        /\ rqLastError.type \in
              {API_ERRORS.NOT_FOUND, API_ERRORS.TIMEOUT, API_ERRORS.SERVER_ERROR}
        /\ RqLast.status = 404 => rqLastError.type = API_ERRORS.NOT_FOUND
        /\ RqLast.status \in {408, 504} => rqLastError.type = API_ERRORS.TIMEOUT

\* C15 witness: an attempt was answered 408, classified TIMEOUT, and the call
\* waits for its retry.
C15_Witness ==
    /\ RqLastNotOk
    /\ RqLast.status = 408
    /\ rqLastError.type = API_ERRORS.TIMEOUT
    /\ rqPc = "delaying"

\* C16 (as claimed): every response with a status >= 500 is classified
\* SERVER_ERROR.
C16_Every5xxIsServerError ==
    (RqLastNotOk /\ RqLast.status >= 500) => rqLastError.type = API_ERRORS.SERVER_ERROR

\* C16 (amended): every response with a status >= 500 other than 504 is
\* classified SERVER_ERROR; 504 is classified TIMEOUT.
C16_5xxExcept504IsServerError ==
    (RqLastNotOk /\ RqLast.status >= 500) =>
        rqLastError.type =
            (IF RqLast.status = 504 THEN API_ERRORS.TIMEOUT ELSE API_ERRORS.SERVER_ERROR)

\* C16 witness: an attempt was answered 503 and classified SERVER_ERROR.
C16_Witness ==
    /\ RqLastNotOk
    /\ RqLast.status = 503
    /\ rqLastError.type = API_ERRORS.SERVER_ERROR
    /\ rqLastError.status = 503

\* C22 (as claimed): whenever a fetch of the call is in flight, the timeout
\* timer that aborts it is pending.
C22_EveryAttemptHasArmedTimeout ==
    rqPc = "fetching" => rqTimer

\* C23 (as claimed): a call that was made eventually resolves or rejects, when
\* timers fire, even if the network leaves an attempt unanswered.
C23_CallEndsWithoutAnswer ==
    (rqPc # "idle") ~> (rqPc = "done")

\* ------------------------------------------------------------------------
\* The response cache of JsonApiClient (services/auth.service.js)
\* ------------------------------------------------------------------------

\* Size above which setCachedResponse evicts. The source compares with 100;
\* the model scales the limit down so that TLC can fill the cache.
MaxCacheSize == 2

\* The clock advances by ClockStep per tick, up to MaxTime (milliseconds).
ClockStep == 5000
MaxTime == 5000

\* CACHE_TTL, in milliseconds
CACHE_TTL == 5000

\* JavaScript's null.
Null == "null"

\* Payloads a response body parses to: an object, and the JSON literal
\* `false` (a valid JSON document that is falsy in JavaScript).
Payloads == {"P", "false"}

\* JavaScript truthiness of the values above.
Truthy(v) == v \notin {Null, "false", ""}

\* A Map is the sequence of its entries in insertion order.
MapHas(map, key) == \E i \in 1..Len(map) : map[i].key = key

MapIndex(map, key) == CHOOSE i \in 1..Len(map) : map[i].key = key

\* Map.prototype.get (only used where the key is present).
MapGet(map, key) == map[MapIndex(map, key)]

\* Map.prototype.set: an existing key keeps its position, a new one is appended.
MapSet(map, entry) ==
    IF MapHas(map, entry.key)
    THEN [map EXCEPT ![MapIndex(map, entry.key)] = entry]
    ELSE Append(map, entry)

\* Map.prototype.delete
MapDelete(map, key) == SelectSeq(map, LAMBDA e : e.key # key)

\* A mutant of FirstKey: the key inserted last.
LastKey(map) == map[Len(map)].key

\* map.keys().next().value: the key inserted first.
FirstKey(map) == map[1].key

\* A mutant of Fresh: an entry as old as the TTL still counts as recent.
FreshInclusive(entry, time) == time - entry.timestamp <= CACHE_TTL

\* `Date.now() - cached.timestamp < CACHE_TTL`
Fresh(entry, time) == time - entry.timestamp < CACHE_TTL

\* getCachedResponse(cacheKey): the value returned and the cache afterwards.
getCachedResponse(cache, cacheKey, time) ==
    IF MapHas(cache, cacheKey) /\ Fresh(MapGet(cache, cacheKey), time)
    THEN [value |-> MapGet(cache, cacheKey).response, cache |-> cache]
    ELSE [value |-> Null, cache |-> MapDelete(cache, cacheKey)]

\* setCachedResponse(cacheKey, response): the cache afterwards.
setCachedResponse(cache, cacheKey, response, time) ==
    LET stored == MapSet(cache, [key |-> cacheKey, response |-> response, timestamp |-> time])
    IN  IF Len(stored) > MaxCacheSize THEN MapDelete(stored, FirstKey(stored)) ELSE stored

\* ------------------------------------------------------------------------
\* JsonApiClient.request (services/auth.service.js)
\* ------------------------------------------------------------------------

\* Bound: top-level calls of request.
MaxCallers == 2

\* API_CONFIG.RETRY_ATTEMPTS and API_CONFIG.RETRY_DELAY
RETRY_ATTEMPTS == 3
RETRY_DELAY == 1000

\* Invocations that reach fetch: enough for one call to use all its retries.
MaxOps == RETRY_ATTEMPTS + 1

\* The requests callers make: method, endpoint, body.
Identities ==
    { [method |-> "GET", endpoint |-> "/a", body |-> Null],
      [method |-> "POST", endpoint |-> "/a", body |-> "{q:1}"] }

\* JSON.stringify of the bodies above.
JsonStringify(body) == IF body = "{q:1}" THEN "{\"q\":1}" ELSE body

\* getCacheKey(endpoint, method, body): `${method}:${endpoint}:${bodyKey}`,
\* kept as its three parts.
getCacheKey(endpoint, method, body) ==
    <<method, endpoint, IF Truthy(body) THEN JsonStringify(body) ELSE "">>

KeyOf(id) == getCacheKey(id.endpoint, id.method, id.body)

\* new ApiError(status, message)
ApiError(status, message) ==
    [name |-> "ApiError", message |-> message, type |-> "none", status |-> status]

\* What the network does to one fetch of JsonApiClient: a response (a status
\* and a body: a JSON value, or for a 200 no JSON at all), a TypeError of
\* fetch, or the abort by the invocation's timeout timer.
JsonFetchOutcomes ==
    [kind : {"response"}, status : {200}, body : Payloads \cup {"<html>"}]
      \cup [kind : {"response"}, status : {404}, body : {"P"}]
      \cup [kind : {"response"}, status : {500}, body : {"P"}]
      \cup [kind : {"throw", "abort"}, status : {NoStatus}, body : {Null}]

JsonInit ==
    /\ now = 0
    /\ requestCache = <<>>
    /\ pendingRequests = {}
    /\ ops = <<>>
    /\ callers = <<>>

\* this.pendingRequests.has(key) / .get(key) / .delete(key)
PendingHas(pending, key) == \E p \in pending : p.key = key
PendingGet(pending, key) == (CHOOSE p \in pending : p.key = key).op
PendingDelete(pending, key) == {p \in pending : p.key # key}

\* this.pendingRequests.set(key, requestPromise)
PendingSet(pending, key, op) == PendingDelete(pending, key) \cup {[key |-> key, op |-> op]}

\* `retryCount < API_CONFIG.RETRY_ATTEMPTS`
CanRetry(retryCount) == retryCount < RETRY_ATTEMPTS

\* The promise of an invocation: pending while it fetches or waits, settled
\* with its own result, or locked to the promise its retry returned.
RECURSIVE OpResult(_, _)
OpResult(i, fuel) ==
    IF ops[i].st = "following"
    THEN IF ops[i].follows = i \/ fuel = 0 THEN Pending
         ELSE OpResult(ops[i].follows, fuel - 1)
    ELSE ops[i].result

\* What a top-level caller holds.
CallerResult(c) ==
    IF callers[c].follows = 0 THEN callers[c].result
    ELSE OpResult(callers[c].follows, Len(ops))

\* A mutant of IsGet: every method is treated as cacheable.
IsGetAlways(method) == TRUE

\* `method === 'GET'`
IsGet(method) == method = "GET"

\* The start of request(endpoint, method, body, extraHeaders, retryCount), up
\* to its return: the cache lookup (GET), the duplicate check, and otherwise
\* a new invocation that fetches and is registered. `to` says what the call
\* returns: a cached value, or the promise of invocation `op`.
RequestStart(id, retryCount, root) ==
    LET key    == KeyOf(id)
        looked == IF IsGet(id.method)
                  THEN getCachedResponse(requestCache, key, now)
                  ELSE [value |-> Null, cache |-> requestCache]
    IN  IF IsGet(id.method) /\ Truthy(looked.value)
        THEN [to |-> "value", value |-> looked.value, op |-> 0, cache |-> looked.cache,
              pending |-> pendingRequests, ops |-> ops]
        ELSE IF PendingHas(pendingRequests, key)
        THEN [to |-> "promise", value |-> Null, op |-> PendingGet(pendingRequests, key),
              cache |-> looked.cache, pending |-> pendingRequests, ops |-> ops]
        ELSE [to |-> "promise", value |-> Null, op |-> Len(ops) + 1,
              cache |-> looked.cache,
              pending |-> PendingSet(pendingRequests, key, Len(ops) + 1),
              ops |-> Append(ops, [id |-> id, retryCount |-> retryCount, root |-> root,
                                   st |-> "fetching", follows |-> 0, result |-> Pending,
                                   kind |-> "none", status |-> NoStatus])]

\* The cache entry of the GET of the same endpoint, as a call finds it:
\* whether it is there and younger than CACHE_TTL, and its payload.
SeenEntry(id) ==
    LET key == getCacheKey(id.endpoint, "GET", Null) IN
    IF MapHas(requestCache, key) /\ now - MapGet(requestCache, key).timestamp < CACHE_TTL
    THEN [fresh |-> TRUE, value |-> MapGet(requestCache, key).response]
    ELSE [fresh |-> FALSE, value |-> Null]

\* The earliest earlier call of the same identity that has not settled and
\* that no cancelAll has followed (0 when there is none).
UnsettledTwin(id) ==
    LET twins == {c \in 1..Len(callers) :
                    /\ callers[c].id = id
                    /\ callers[c].clean
                    /\ CallerResult(c).state = "pending"}
    IN  IF twins = {} THEN 0 ELSE CHOOSE c \in twins : \A d \in twins : c <= d

\* A caller calls jsonApiClient.request(endpoint, method, body).
JsonRequest ==
    /\ Len(callers) < MaxCallers
    /\ \E id \in Identities :
          LET r == RequestStart(id, 0, Len(callers) + 1) IN
          /\ Len(r.ops) <= MaxOps
          /\ requestCache' = r.cache
          /\ pendingRequests' = r.pending
          /\ ops' = r.ops
          /\ callers' = Append(callers,
                               [id |-> id, follows |-> r.op,
                                result |-> IF r.to = "value" THEN Resolved(r.value) ELSE Pending,
                                seen |-> SeenEntry(id), twin |-> UnsettledTwin(id),
                                joined |-> IF r.to = "promise" /\ r.op <= Len(ops)
                                           THEN ops[r.op].st ELSE "none",
                                clean |-> TRUE])
    /\ UNCHANGED <<now, rqVars, storeVars, auxVars>>

\* The invocation settles: its promise takes `result`, and the finally block
\* deletes the key from pendingRequests.
OpSettled(i, result, outcome) ==
    /\ ops' = [ops EXCEPT ![i].st = "settled", ![i].result = result,
                           ![i].kind = outcome.kind, ![i].status = outcome.status]
    /\ pendingRequests' = PendingDelete(pendingRequests, KeyOf(ops[i].id))

\* The invocation starts `await this.delay(...)` before its retry.
OpDelays(i, outcome) ==
    /\ ops' = [ops EXCEPT ![i].st = "delaying",
                           ![i].kind = outcome.kind, ![i].status = outcome.status]
    /\ UNCHANGED pendingRequests

\* The catch block, for the caught `error`.
JsonCatch(i, error, outcome) ==
    IF error.name = "AbortError"
    THEN IF CanRetry(ops[i].retryCount)
         THEN OpDelays(i, outcome)
         ELSE OpSettled(i, Rejected(ApiError(408, "TIMEOUT")), outcome)
    ELSE IF error.name = "TypeError" /\ CanRetry(ops[i].retryCount)
    THEN OpDelays(i, outcome)
    ELSE OpSettled(i, Rejected(error), outcome)

\* The network settles the fetch of invocation i, or its timeout aborts it.
JsonFetchSettlesOp(i) ==
    /\ i \in 1..Len(ops)
    /\ \E o \in JsonFetchOutcomes :
       /\ ops[i].st = "fetching"
       /\ IF o.kind = "abort" THEN JsonCatch(i, AbortError, o) /\ UNCHANGED requestCache
          ELSE IF o.kind = "throw"
          THEN JsonCatch(i, RawError("TypeError", "Failed to fetch"), o) /\ UNCHANGED requestCache
          ELSE IF ~ResponseOk(o.status)
          THEN /\ UNCHANGED requestCache
               /\ IF o.status >= 500 /\ CanRetry(ops[i].retryCount)
                  THEN OpDelays(i, o)
                  ELSE IF o.body = Null
                  THEN \* errorData is null: reading errorData.message throws
                       JsonCatch(i, RawError("TypeError", "Cannot read properties of null"), o)
                  ELSE JsonCatch(i, ApiError(o.status, "Request failed"), o)
          ELSE IF o.body = "<html>"
          THEN JsonCatch(i, JsonSyntaxError, o) /\ UNCHANGED requestCache
          ELSE /\ requestCache' =
                     IF IsGet(ops[i].id.method)
                     THEN setCachedResponse(requestCache, KeyOf(ops[i].id), o.body, now)
                     ELSE requestCache
               /\ OpSettled(i, Resolved(o.body), o)
    /\ UNCHANGED <<now, callers, rqVars, storeVars, auxVars>>

\* The fetch of some invocation settles.
JsonFetchSettles == \E i \in 1..MaxOps : JsonFetchSettlesOp(i)

\* The backoff timer of invocation i fires: `return this.request(...,
\* retryCount + 1)` and then the finally block.
JsonDelayElapsedOp(i) ==
    /\ i \in 1..Len(ops)
    /\ ops[i].st = "delaying"
    /\ LET r == RequestStart(ops[i].id, ops[i].retryCount + 1, ops[i].root) IN
       /\ Len(r.ops) <= MaxOps
       /\ requestCache' = r.cache
       /\ pendingRequests' = PendingDelete(r.pending, KeyOf(ops[i].id))
       /\ ops' = IF r.to = "value"
                 THEN [r.ops EXCEPT ![i].st = "settled", ![i].result = Resolved(r.value)]
                 ELSE [r.ops EXCEPT ![i].st = "following", ![i].follows = r.op]
    /\ UNCHANGED <<now, callers, rqVars, storeVars, auxVars>>

\* The backoff timer of some invocation fires.
JsonDelayElapsed == \E i \in 1..MaxOps : JsonDelayElapsedOp(i)

\* A mutant of JsonCancelAll: the fetches in flight are aborted as well.
CancelAllAbortsFetches ==
    /\ pendingRequests' = {}
    /\ requestCache' = <<>>
    /\ callers' = [c \in 1..Len(callers) |-> [callers[c] EXCEPT !.clean = FALSE]]
    /\ ops' = [i \in 1..Len(ops) |->
                 IF ops[i].st = "fetching"
                 THEN [ops[i] EXCEPT !.st = "settled", !.kind = "abort",
                                     !.result = Rejected(ApiError(408, "TIMEOUT"))]
                 ELSE ops[i]]
    /\ UNCHANGED <<now, rqVars, storeVars, auxVars>>

\* A mutant of JsonCancelAll: only the pending requests are cleared.
CancelAllKeepsCache ==
    /\ pendingRequests' = {}
    /\ callers' = [c \in 1..Len(callers) |-> [callers[c] EXCEPT !.clean = FALSE]]
    /\ UNCHANGED <<now, requestCache, ops, rqVars, storeVars, auxVars>>

\* cancelAll()
JsonCancelAll ==
    /\ pendingRequests' = {}
    /\ requestCache' = <<>>
    /\ callers' = [c \in 1..Len(callers) |-> [callers[c] EXCEPT !.clean = FALSE]]
    /\ UNCHANGED <<now, ops, rqVars, storeVars, auxVars>>

\* Time passes.
Tick ==
    /\ now + ClockStep <= MaxTime
    /\ now' = now + ClockStep
    /\ UNCHANGED <<requestCache, pendingRequests, ops, callers, rqVars, storeVars, auxVars>>

\* ------------------------------------------------------------------------
\* The two stores on their own: requestCache through getCachedResponse and
\* setCachedResponse, and a cache made by createMemoryCache
\* (utils/auth.utils.js)
\* ------------------------------------------------------------------------

\* Largest maxSize given to createMemoryCache.
MaxMemSize == 2

\* `expiresAt: null`
NoExpiry == 0

\* The GET requests whose responses are stored, and the keys and values of
\* the memory cache.
StoreIdentities ==
    { [method |-> "GET", endpoint |-> e, body |-> Null] : e \in {"/a", "/b", "/c"} }
MemKeys == {"k1", "k2", "k3"}
MemValues == {"v", "w"}
MemTtls == {NoExpiry, 2500, 5000}

NoOp == [op |-> "none", key |-> Null, value |-> Null, evicted |-> Null]

\* No store is exercised on its own.
StoreIdle ==
    /\ harness = "none"
    /\ memMaxSize = 0
    /\ memCache = <<>>
    /\ storeLast = NoOp
    /\ lastHit = Null

\* Either requestCache is exercised, or createMemoryCache(maxSize) was called.
StoreInit ==
    /\ \/ harness = "requestCache" /\ memMaxSize = 0
       \/ harness = "memoryCache" /\ memMaxSize \in 1..MaxMemSize
    /\ memCache = <<>>
    /\ storeLast = NoOp
    /\ lastHit = Null

\* `item.expiresAt && Date.now() > item.expiresAt`
MemExpired(item, time) == item.expiresAt # NoExpiry /\ time > item.expiresAt

\* get(key) of createMemoryCache: the value returned and the cache afterwards.
MemGetResult(cache, key, time) ==
    IF ~MapHas(cache, key) THEN [value |-> "undefined", cache |-> cache]
    ELSE IF MemExpired(MapGet(cache, key), time)
    THEN [value |-> "undefined", cache |-> MapDelete(cache, key)]
    ELSE [value |-> MapGet(cache, key).value, cache |-> cache]

\* A mutant of MemSetResult: the first key is evicted only above the limit.
MemSetEvictsLate(cache, maxSize, key, value, ttl, time) ==
    LET room == IF Len(cache) > maxSize THEN MapDelete(cache, FirstKey(cache)) ELSE cache
    IN  MapSet(room, [key |-> key, value |-> value,
                      expiresAt |-> IF ttl # NoExpiry THEN time + ttl ELSE NoExpiry])

\* set(key, value, ttl) of createMemoryCache: the cache afterwards.
MemSetResult(cache, maxSize, key, value, ttl, time) ==
    LET room == IF Len(cache) >= maxSize THEN MapDelete(cache, FirstKey(cache)) ELSE cache
    IN  MapSet(room, [key |-> key, value |-> value,
                      expiresAt |-> IF ttl # NoExpiry THEN time + ttl ELSE NoExpiry])

\* The key a store evicted: the one of `before` that is neither in `after`
\* nor the key just deleted by the caller (Null when there is none).
EvictedKey(before, after) ==
    LET gone == {before[i].key : i \in 1..Len(before)} \ {after[i].key : i \in 1..Len(after)}
    IN  IF gone = {} THEN Null ELSE CHOOSE k \in gone : TRUE

\* setCachedResponse(key, response) called on its own.
StoreSetCached ==
    /\ harness = "requestCache"
    /\ \E id \in StoreIdentities, v \in Payloads :
          /\ requestCache' = setCachedResponse(requestCache, KeyOf(id), v, now)
          /\ storeLast' = [op |-> "set", key |-> id.endpoint, value |-> v,
                           evicted |-> LET k == EvictedKey(requestCache, requestCache')
                                       IN IF k = Null THEN Null ELSE k[2]]
    /\ UNCHANGED <<now, harness, memMaxSize, memCache, lastHit>>
    /\ UNCHANGED <<rqVars, pendingRequests, ops, callers, auxVars>>

\* getCachedResponse(key) called on its own.
StoreGetCached ==
    /\ harness = "requestCache"
    /\ \E id \in StoreIdentities :
          LET r == getCachedResponse(requestCache, KeyOf(id), now) IN
          /\ requestCache' = r.cache
          /\ storeLast' = [op |-> "get", key |-> id.endpoint, value |-> r.value,
                           evicted |-> Null]
          /\ lastHit' = IF r.value # Null THEN id.endpoint ELSE lastHit
    /\ UNCHANGED <<now, harness, memMaxSize, memCache>>
    /\ UNCHANGED <<rqVars, pendingRequests, ops, callers, auxVars>>

\* cache.set(key, value, ttl)
MemSet ==
    /\ harness = "memoryCache"
    /\ \E k \in MemKeys, v \in MemValues, ttl \in MemTtls :
          /\ memCache' = MemSetResult(memCache, memMaxSize, k, v, ttl, now)
          /\ storeLast' = [op |-> "set", key |-> k, value |-> v,
                           evicted |-> EvictedKey(memCache, memCache')]
    /\ UNCHANGED <<now, requestCache, harness, memMaxSize, lastHit>>
    /\ UNCHANGED <<rqVars, pendingRequests, ops, callers, auxVars>>

\* cache.get(key)
MemGet ==
    /\ harness = "memoryCache"
    /\ \E k \in MemKeys :
          LET r == MemGetResult(memCache, k, now) IN
          /\ memCache' = r.cache
          /\ storeLast' = [op |-> "get", key |-> k, value |-> r.value, evicted |-> Null]
          /\ lastHit' = IF r.value # "undefined" THEN k ELSE lastHit
    /\ UNCHANGED <<now, requestCache, harness, memMaxSize>>
    /\ UNCHANGED <<rqVars, pendingRequests, ops, callers, auxVars>>

\* cache.has(key): like get, but answers true or false.
MemHas ==
    /\ harness = "memoryCache"
    /\ \E k \in MemKeys :
          LET r == MemGetResult(memCache, k, now) IN
          /\ memCache' = r.cache
          /\ storeLast' = [op |-> "has", key |-> k,
                           value |-> IF r.value # "undefined" THEN "true" ELSE "false",
                           evicted |-> Null]
    /\ UNCHANGED <<now, requestCache, harness, memMaxSize, lastHit>>
    /\ UNCHANGED <<rqVars, pendingRequests, ops, callers, auxVars>>

\* cache.delete(key)
MemDelete ==
    /\ harness = "memoryCache"
    /\ \E k \in MemKeys :
          /\ memCache' = MapDelete(memCache, k)
          /\ storeLast' = [op |-> "delete", key |-> k, value |-> Null, evicted |-> Null]
    /\ UNCHANGED <<now, requestCache, harness, memMaxSize, lastHit>>
    /\ UNCHANGED <<rqVars, pendingRequests, ops, callers, auxVars>>

\* cache.clear()
MemClear ==
    /\ harness = "memoryCache"
    /\ memCache' = <<>>
    /\ storeLast' = [op |-> "clear", key |-> Null, value |-> Null, evicted |-> Null]
    /\ UNCHANGED <<now, requestCache, harness, memMaxSize, lastHit>>
    /\ UNCHANGED <<rqVars, pendingRequests, ops, callers, auxVars>>

\* Time passes while a store is exercised.
StoreTick ==
    /\ now + ClockStep <= MaxTime
    /\ now' = now + ClockStep
    /\ UNCHANGED <<requestCache, storeVars, rqVars, pendingRequests, ops, callers, auxVars>>

\* C5: a store that holds as many entries as its limit allows and is given a
\* value under a key it does not hold drops its first-inserted entry and no
\* other, keeps the others in their order and appends the new entry, whichever
\* entry was read last. Stated for the response cache (setCachedResponse) and
\* for the memory cache (createMemoryCache.set).
C5_EvictsFirstInserted ==
    [][/\ (/\ harness = "requestCache"
           /\ Len(requestCache) = MaxCacheSize
           /\ \E i \in 1..Len(requestCache') : ~MapHas(requestCache, requestCache'[i].key))
          => /\ Len(requestCache') = MaxCacheSize
             /\ SubSeq(requestCache', 1, MaxCacheSize - 1) = Tail(requestCache)
             /\ ~MapHas(requestCache', requestCache[1].key)
       /\ (/\ harness = "memoryCache"
           /\ Len(memCache) = memMaxSize
           /\ \E i \in 1..Len(memCache') : ~MapHas(memCache, memCache'[i].key))
          => /\ Len(memCache') = memMaxSize
             /\ SubSeq(memCache', 1, memMaxSize - 1) = Tail(memCache)
             /\ ~MapHas(memCache', memCache[1].key)]_vars

\* C5 witness: the response cache is full again after a set that evicted the
\* entry that was the last one read.
C5_Witness ==
    /\ harness = "requestCache"
    /\ Len(requestCache) = MaxCacheSize
    /\ storeLast.op = "set"
    /\ storeLast.evicted # Null
    /\ storeLast.evicted = lastHit
    /\ \A i \in 1..Len(requestCache) : requestCache[i].key[2] # lastHit

\* C26: whenever setCachedResponse has returned the response cache holds no
\* more entries than its limit, and whenever set has returned a memory cache
\* created with maxSize >= 1 holds at most maxSize entries.
C26_StoresStayWithinLimit ==
    /\ Len(requestCache) <= MaxCacheSize
    /\ (harness = "memoryCache" /\ memMaxSize >= 1) => Len(memCache) <= memMaxSize

\* C26 witness: a set on a full memory cache has just returned; it evicted a
\* key and the cache holds exactly maxSize entries.
C26_Witness ==
    /\ harness = "memoryCache"
    /\ memMaxSize >= 1
    /\ storeLast.op = "set"
    /\ storeLast.evicted # Null
    /\ Len(memCache) = memMaxSize

\* C27 as stated: a lookup (a step that records a get and leaves the clock
\* alone) of a held entry older than its TTL misses and removes the entry;
\* a lookup of a held entry whose age is at most its TTL returns the stored
\* value and leaves the store as it was. For both stores.
C27_LookupHonoursTtl ==
    [][(storeLast'.op = "get" /\ now' = now) =>
        /\ harness = "requestCache" =>
              LET k == KeyOf([method |-> "GET", endpoint |-> storeLast'.key, body |-> Null])
              IN  MapHas(requestCache, k) =>
                    LET entry == MapGet(requestCache, k) IN
                    /\ now - entry.timestamp > CACHE_TTL =>
                          /\ storeLast'.value = Null
                          /\ requestCache' = MapDelete(requestCache, k)
                    /\ now - entry.timestamp <= CACHE_TTL =>
                          /\ storeLast'.value = entry.response
                          /\ requestCache' = requestCache
        /\ harness = "memoryCache" =>
              LET k == storeLast'.key
              IN  (MapHas(memCache, k) /\ MapGet(memCache, k).expiresAt # NoExpiry) =>
                    LET entry == MapGet(memCache, k) IN
                    /\ now > entry.expiresAt =>
                          /\ storeLast'.value = "undefined"
                          /\ memCache' = MapDelete(memCache, k)
                    /\ now <= entry.expiresAt =>
                          /\ storeLast'.value = entry.value
                          /\ memCache' = memCache]_vars

\* C27 amended: in the response cache an entry whose age has reached
\* CACHE_TTL already misses and is removed, and only a younger one is served;
\* in the memory cache an entry is served up to and including the instant it
\* expires and misses, and is removed, only after it.
C27_LookupHonoursTtlExclusive ==
    [][(storeLast'.op = "get" /\ now' = now) =>
        /\ harness = "requestCache" =>
              LET k == KeyOf([method |-> "GET", endpoint |-> storeLast'.key, body |-> Null])
              IN  MapHas(requestCache, k) =>
                    LET entry == MapGet(requestCache, k) IN
                    /\ now - entry.timestamp >= CACHE_TTL =>
                          /\ storeLast'.value = Null
                          /\ requestCache' = MapDelete(requestCache, k)
                    /\ now - entry.timestamp < CACHE_TTL =>
                          /\ storeLast'.value = entry.response
                          /\ requestCache' = requestCache
        /\ harness = "memoryCache" =>
              LET k == storeLast'.key
              IN  (MapHas(memCache, k) /\ MapGet(memCache, k).expiresAt # NoExpiry) =>
                    LET entry == MapGet(memCache, k) IN
                    /\ now > entry.expiresAt =>
                          /\ storeLast'.value = "undefined"
                          /\ memCache' = MapDelete(memCache, k)
                    /\ now <= entry.expiresAt =>
                          /\ storeLast'.value = entry.value
                          /\ memCache' = memCache]_vars

\* C27 witness: after the clock advanced, a lookup in the response cache
\* missed the entry that an earlier lookup had served, and the store, which
\* held nothing else, is empty.
C27_Witness ==
    /\ harness = "requestCache"
    /\ now > 0
    /\ storeLast.op = "get"
    /\ storeLast.value = Null
    /\ storeLast.key = lastHit
    /\ requestCache = <<>>

\* ------------------------------------------------------------------------
\* Properties of JsonApiClient.request
\* ------------------------------------------------------------------------

\* The invocations made on behalf of top-level call c: its own and those of
\* its retries. Each of them made exactly one fetch.
OpsOf(c) == {i \in 1..Len(ops) : ops[i].root = c}

\* Call c started an invocation of its own (it was neither served from the
\* cache nor attached to a registered promise).
StartedOwn(c) == callers[c].follows # 0 /\ ops[callers[c].follows].root = c

\* C1 (as claimed): a call made while an earlier call of the same identity
\* has not settled, with no cancelAll in between, causes no fetch of its own
\* and holds the same outcome as that earlier call.
C1_ConcurrentCallsShareOneFetch ==
    \A c \in 1..Len(callers) :
        callers[c].twin # 0 =>
            /\ ~StartedOwn(c)
            /\ CallerResult(c) = CallerResult(callers[c].twin)

\* C2 (as claimed): a call whose every attempt was answered with a 5xx
\* status, once none of its fetches is in flight and none of its backoff
\* delays is running, has made exactly RETRY_ATTEMPTS + 1 fetches and is
\* rejected with the ApiError of the last 5xx response.
C2_All5xxMakesFourFetches ==
    \A c \in 1..Len(callers) :
        (/\ StartedOwn(c)
         /\ \A i \in OpsOf(c) : ops[i].status >= 500 /\ ops[i].st \notin {"fetching", "delaying"})
            => /\ Cardinality(OpsOf(c)) = RETRY_ATTEMPTS + 1
               /\ CallerResult(c).state = "rejected"
               /\ CallerResult(c).error.name = "ApiError"
               /\ CallerResult(c).error.status >= 500

\* C4 (as claimed): a GET made while the cache holds an entry of its identity
\* younger than CACHE_TTL returns that entry's payload without a fetch, and a
\* GET that finds no such entry (none, or one of age >= CACHE_TTL) is a miss:
\* it goes to the network (its own fetch, or the one already in flight).
C4_FreshEntryServedUntilTtl ==
    \A c \in 1..Len(callers) :
        callers[c].id.method = "GET" =>
            /\ callers[c].seen.fresh =>
                  /\ callers[c].follows = 0
                  /\ callers[c].result = Resolved(callers[c].seen.value)
            /\ ~callers[c].seen.fresh => callers[c].follows # 0

\* C6: no step of a request whose method is not GET changes the response
\* cache (no entry added, replaced or removed), and such a call is never
\* answered from the cache: it fetches, or attaches to the pending request of
\* its own identity.
C6_MutatingRequestsBypassCache ==
    [][/\ (/\ Len(callers') = Len(callers) + 1
           /\ callers'[Len(callers')].id.method # "GET")
          => /\ requestCache' = requestCache
             /\ callers'[Len(callers')].follows # 0
       /\ \A i \in 1..Len(ops) :
             (ops[i].id.method # "GET" /\ ops'[i] # ops[i])
                => requestCache' = requestCache]_vars

\* C6 witness: a POST made while the GET of the same endpoint was cached has
\* fetched and settled, and the GET's entry is still in the cache.
C6_Witness ==
    \E c \in 1..Len(callers) :
        /\ callers[c].id.method = "POST"
        /\ callers[c].seen.fresh
        /\ StartedOwn(c)
        /\ ops[callers[c].follows].st = "settled"
        /\ MapHas(requestCache, getCacheKey(callers[c].id.endpoint, "GET", Null))
        /\ MapGet(requestCache, getCacheKey(callers[c].id.endpoint, "GET", Null)).response
              = callers[c].seen.value

\* C10 (as claimed): a call that fails is rejected with a classified error
\* (an ApiError carrying a status), never with the exception fetch or
\* response.json() threw.
C10_RejectsOnlyWithClassifiedError ==
    \A c \in 1..Len(callers) :
        CallerResult(c).state = "rejected" => CallerResult(c).error.name = "ApiError"

\* C12: an attempt ended by the abort of the timeout timer is reported as a
\* timeout: clientRequest and serverRequest reject with an APIError of type
\* TIMEOUT, and an invocation of JsonApiClient.request that has no retry left
\* (retryCount = RETRY_ATTEMPTS) rejects with an ApiError of status 408; no
\* invocation ended by an abort rejects with anything else.
C12_AbortReportedAsTimeout ==
    /\ (rqPc = "done" /\ rqOutcomes # <<>> /\ RqLast.kind = "abort")
          => /\ rqResult.state = "rejected"
             /\ rqResult.error.name = "APIError"
             /\ rqResult.error.type = "TIMEOUT"
    /\ \A i \in 1..Len(ops) :
          (ops[i].kind = "abort" /\ ops[i].st = "settled") =>
             /\ ops[i].retryCount = RETRY_ATTEMPTS =>
                   /\ ops[i].result.state = "rejected"
                   /\ ops[i].result.error.name = "ApiError"
                   /\ ops[i].result.error.status = 408
             /\ ops[i].result.state = "rejected" =>
                   /\ ops[i].result.error.name = "ApiError"
                   /\ ops[i].result.error.status = 408

\* C12 witness: the last permitted invocation of a JsonApiClient request was
\* aborted by its timer and has settled.
C12_Witness ==
    \E i \in 1..Len(ops) :
        /\ ops[i].retryCount = RETRY_ATTEMPTS
        /\ ops[i].kind = "abort"
        /\ ops[i].st = "settled"

\* C17: right after cancelAll (the step that marks the calls made so far as
\* followed by a cancelAll), the pending-request map and the response cache
\* are both empty.
C17_CancelAllEmptiesBoth ==
    [][(\E c \in 1..Len(callers) :
           /\ Len(callers') = Len(callers)
           /\ callers[c].clean
           /\ ~callers'[c].clean)
          => (pendingRequests' = {} /\ requestCache' = <<>>)]_vars

\* C17 witness: cancelAll has run while one request was in flight and the
\* response of another was cached; both stores are empty.
C17_Witness ==
    /\ pendingRequests = {}
    /\ requestCache = <<>>
    /\ \E c \in 1..Len(callers) :
          /\ ~callers[c].clean
          /\ StartedOwn(c)
          /\ ops[callers[c].follows].st = "fetching"
    /\ \E i \in 1..Len(ops) :
          /\ ops[i].id.method = "GET"
          /\ ops[i].st = "settled"
          /\ ops[i].result.state = "resolved"
          /\ Truthy(ops[i].result.value)

\* C18 (as claimed): every call of JsonApiClient.request eventually settles,
\* when every fetch is answered or aborted and every timer fires. (A run in
\* which the model has no invocation left to give, Len(ops) = MaxOps, is not
\* counted against the claim.)
C18_EveryCallSettles ==
    \A c \in 1..MaxCallers :
        (c <= Len(callers)) ~>
            (c <= Len(callers) /\ (CallerResult(c).state # "pending" \/ Len(ops) = MaxOps))

\* C19 (as claimed): a call that attached to a registered request while that
\* request waited in its backoff delay makes no fetch of its own and
\* eventually holds a settled outcome, the same as the call that started the
\* request. (A run in which the model has no invocation left to give is not
\* counted against the claim.)
C19_AttachedDuringBackoffGetsOutcome ==
    \A c \in 1..MaxCallers :
        (c <= Len(callers) /\ callers[c].joined = "delaying") ~>
            (/\ c <= Len(callers)
             /\ callers[c].follows # 0
             /\ ~StartedOwn(c)
             /\ \/ Len(ops) = MaxOps
                \/ /\ CallerResult(c).state # "pending"
                   /\ CallerResult(c) = CallerResult(ops[callers[c].follows].root))

\* C20 (as claimed): the request a call started, with no cancelAll since, is
\* registered in pendingRequests exactly as long as it has no final outcome:
\* registered through its retries while the call is pending, and no longer
\* registered once the call has resolved or rejected.
C20_RegisteredUntilFinalOutcome ==
    \A c \in 1..Len(callers) :
        (StartedOwn(c) /\ callers[c].clean) =>
            (CallerResult(c).state = "pending"
                <=> \E p \in pendingRequests : ops[p.op].root = c)

\* C21 (as claimed): a request registered after a cancelAll keeps its
\* registration while its fetch is in flight, whatever older request of the
\* same identity settles meanwhile: the first invocation of a call, with no
\* cancelAll since the call, is in pendingRequests as long as it fetches.
C21_SettlingRemovesOwnRegistrationOnly ==
    \A c \in 1..Len(callers) :
        (/\ StartedOwn(c)
         /\ callers[c].clean
         /\ ops[callers[c].follows].st = "fetching")
            => [key |-> KeyOf(callers[c].id), op |-> callers[c].follows] \in pendingRequests

\* The extraHeaders of top-level call c: every call passes headers of its
\* own (a langCode or Authorization value no other call passes).
HeadersOfCall(c) == [langCode |-> c]

\* The extraHeaders invocation i sends: those of the call it was started for
\* (a retry passes them on).
SentHeaders(i) == HeadersOfCall(ops[i].root)

\* C24 (as claimed): a call made while an earlier call of the same method,
\* endpoint and body (and other headers) is pending, or while the cache holds
\* a GET response of its identity younger than CACHE_TTL, holds that earlier
\* outcome or that cached response, and no fetch carries its headers.
C24_IdentityIgnoresHeaders ==
    \A c \in 1..Len(callers) :
        /\ callers[c].twin # 0 =>
              /\ \A i \in 1..Len(ops) : SentHeaders(i) # HeadersOfCall(c)
              /\ CallerResult(c) = CallerResult(callers[c].twin)
        /\ (callers[c].id.method = "GET" /\ callers[c].seen.fresh) =>
              /\ \A i \in 1..Len(ops) : SentHeaders(i) # HeadersOfCall(c)
              /\ CallerResult(c) = Resolved(callers[c].seen.value)

CallerHeaderNames == {"Content-Type", "Accept", "User-Agent", "X-Client-Type", "Authorization"}
CallerHeaders == UNION { [S -> {"caller"}] : S \in SUBSET CallerHeaderNames }

\* `{}`
NoHeaders == [n \in {} |-> "caller"]

\* `{ ...a, ...b }`
Spread(a, b) ==
    [n \in (DOMAIN a) \cup (DOMAIN b) |-> IF n \in DOMAIN b THEN b[n] ELSE a[n]]

\* buildRequestConfig(options, isServer).headers
buildRequestConfig(headers, isServer) ==
    LET baseHeaders == Spread("Content-Type" :> "application/json", headers)
    IN  IF isServer
        THEN [n \in (DOMAIN baseHeaders) \cup {"User-Agent", "X-Client-Type"} |->
                 IF n = "User-Agent" THEN "NextJS-Server/1.0"
                 ELSE IF n = "X-Client-Type" THEN "Web"
                 ELSE baseHeaders[n]]
        ELSE baseHeaders

\* The `headers` object of JsonApiClient.request
JsonRequestHeaders(extraHeaders) ==
    Spread([n \in {"Content-Type", "Accept", "X-Requested-With", "X-Content-Type-Options"} |->
               CASE n = "Content-Type" -> "application/json"
                 [] n = "Accept" -> "application/json"
                 [] n = "X-Requested-With" -> "XMLHttpRequest"
                 [] n = "X-Content-Type-Options" -> "nosniff"],
           extraHeaders)

\* clientAuthRequest(url, token, options): the headers clientRequest sends.
clientAuthRequest(token, headers) ==
    buildRequestConfig(Spread("Authorization" :> token, headers), FALSE)

\* The headers each site sends for the headers a caller passes.
SentBy(site, headers) ==
    CASE site = "client" -> buildRequestConfig(headers, FALSE)
      [] site = "server" -> buildRequestConfig(headers, TRUE)
      [] site = "json" -> JsonRequestHeaders(headers)
      [] site = "clientAuth" -> clientAuthRequest("Bearer t", headers)

\* No request was built.
HdrIdle ==
    /\ hdrSite = "none"
    /\ hdrCaller = NoHeaders
    /\ hdrSent = NoHeaders

\* A caller holds a headers object; no request was built yet.
HdrInit ==
    /\ hdrSite = "none"
    /\ hdrCaller \in CallerHeaders
    /\ hdrSent = NoHeaders

\* clientRequest builds its config.
HdrClientRequest ==
    /\ hdrSite = "none"
    /\ hdrSite' = "client"
    /\ hdrSent' = SentBy("client", hdrCaller)
    /\ UNCHANGED <<hdrCaller, authVars, rateVars, rqVars, jsonVars, storeVars>>

\* serverRequest builds its config.
HdrServerRequest ==
    /\ hdrSite = "none"
    /\ hdrSite' = "server"
    /\ hdrSent' = SentBy("server", hdrCaller)
    /\ UNCHANGED <<hdrCaller, authVars, rateVars, rqVars, jsonVars, storeVars>>

\* JsonApiClient.request builds its headers.
HdrJsonRequest ==
    /\ hdrSite = "none"
    /\ hdrSite' = "json"
    /\ hdrSent' = SentBy("json", hdrCaller)
    /\ UNCHANGED <<hdrCaller, authVars, rateVars, rqVars, jsonVars, storeVars>>

\* clientAuthRequest adds the token and calls clientRequest.
HdrClientAuthRequest ==
    /\ hdrSite = "none"
    /\ hdrSite' = "clientAuth"
    /\ hdrSent' = SentBy("clientAuth", hdrCaller)
    /\ UNCHANGED <<hdrCaller, authVars, rateVars, rqVars, jsonVars, storeVars>>

\* C28: at every site the headers sent carry the caller's value under every
\* name the caller supplied, and under every other name that the site sends
\* when the caller supplies nothing (its base headers) that base value.
C28_CallerHeadersOverrideBase ==
    hdrSite # "none" =>
        /\ \A n \in DOMAIN hdrCaller :
              n \in DOMAIN hdrSent /\ hdrSent[n] = hdrCaller[n]
        /\ \A n \in (DOMAIN SentBy(hdrSite, NoHeaders)) \ (DOMAIN hdrCaller) :
              n \in DOMAIN hdrSent /\ hdrSent[n] = SentBy(hdrSite, NoHeaders)[n]

\* ------------------------------------------------------------------------
\* useAuth (hooks/useAuth.js)
\* ------------------------------------------------------------------------

\* Bound: calls of the hook's operations.
MaxAuthCalls == 3

AuthInit ==
    /\ isRequestInProgress = FALSE
    /\ abortController = "null"
    /\ authOps = <<>>

\* An operation that has not returned to its caller yet.
AuthUnfinished(op) == op.st # "returned"

\* `if (isRequestInProgressRef.current) return { success: false, error: REQUEST_IN_PROGRESS }`
\* The record notes whether an earlier operation was unfinished at the call.
AuthRefused(name) ==
    [name |-> name, st |-> "returned", service |-> FALSE, result |-> "REQUEST_IN_PROGRESS",
     busy |-> \E j \in 1..Len(authOps) : AuthUnfinished(authOps[j])]

\* The operation passed the guard and awaits its AuthService call.
AuthAwaiting(name) ==
    [name |-> name, st |-> "service", service |-> TRUE, result |-> Null,
     busy |-> \E j \in 1..Len(authOps) : AuthUnfinished(authOps[j])]

\* login(mobile, password): up to the first await.
Login ==
    /\ Len(authOps) < MaxAuthCalls
    /\ IF isRequestInProgress
       THEN /\ authOps' = Append(authOps, AuthRefused("login"))
            /\ UNCHANGED <<isRequestInProgress, abortController>>
       ELSE /\ isRequestInProgress' = TRUE
            /\ abortController' = "live"
            /\ authOps' = Append(authOps, AuthAwaiting("login"))
    /\ UNCHANGED <<hdrVars, rateVars, rqVars, jsonVars, storeVars>>

\* loginOtp(mobile): up to the await.
LoginOtp ==
    /\ Len(authOps) < MaxAuthCalls
    /\ IF isRequestInProgress
       THEN /\ authOps' = Append(authOps, AuthRefused("loginOtp"))
            /\ UNCHANGED isRequestInProgress
       ELSE /\ isRequestInProgress' = TRUE
            /\ authOps' = Append(authOps, AuthAwaiting("loginOtp"))
    /\ UNCHANGED <<abortController, hdrVars, rateVars, rqVars, jsonVars, storeVars>>

\* verifyOTP(userOtp, enteredOtp): it awaits nothing, so the guard, the call
\* of AuthService.verifyOtpClientSide and the finally block are one step.
VerifyOTP ==
    /\ Len(authOps) < MaxAuthCalls
    /\ IF isRequestInProgress
       THEN /\ authOps' = Append(authOps, AuthRefused("verifyOTP"))
            /\ UNCHANGED isRequestInProgress
       ELSE /\ isRequestInProgress' = FALSE
            /\ \E r \in {"success", "failure"} :
                  authOps' = Append(authOps, [AuthAwaiting("verifyOTP") EXCEPT
                                                 !.st = "returned", !.result = r])
    /\ UNCHANGED <<abortController, hdrVars, rateVars, rqVars, jsonVars, storeVars>>

\* setPersonalInfo(id, personalData): up to the await.
SetPersonalInfo ==
    /\ Len(authOps) < MaxAuthCalls
    /\ IF isRequestInProgress
       THEN /\ authOps' = Append(authOps, AuthRefused("setPersonalInfo"))
            /\ UNCHANGED isRequestInProgress
       ELSE /\ isRequestInProgress' = TRUE
            /\ authOps' = Append(authOps, AuthAwaiting("setPersonalInfo"))
    /\ UNCHANGED <<abortController, hdrVars, rateVars, rqVars, jsonVars, storeVars>>

\* The awaited AuthService call settles. A successful login goes on to await
\* signIn; every other case returns through the finally block.
AuthServiceSettles ==
    /\ \E i \in 1..Len(authOps), r \in {"success", "failure"} :
          /\ authOps[i].st = "service"
          /\ IF authOps[i].name = "login" /\ r = "success"
             THEN /\ authOps' = [authOps EXCEPT ![i].st = "signIn"]
                  /\ UNCHANGED <<isRequestInProgress, abortController>>
             ELSE /\ authOps' = [authOps EXCEPT ![i].st = "returned", ![i].result = r]
                  /\ isRequestInProgress' = FALSE
                  /\ abortController' = IF authOps[i].name = "login" THEN "null"
                                        ELSE abortController
    /\ UNCHANGED <<hdrVars, rateVars, rqVars, jsonVars, storeVars>>

\* The awaited signIn of login settles; login returns through its finally block.
SignInSettles ==
    /\ \E i \in 1..Len(authOps), r \in {"success", "failure"} :
          /\ authOps[i].st = "signIn"
          /\ authOps' = [authOps EXCEPT ![i].st = "returned", ![i].result = r]
    /\ isRequestInProgress' = FALSE
    /\ abortController' = "null"
    /\ UNCHANGED <<hdrVars, rateVars, rqVars, jsonVars, storeVars>>

\* cancelRequest(): the controller's signal is passed to nobody, and
\* AuthService.cancelAllRequests() only empties the client's maps, so the
\* operation that is awaiting goes on.
CancelRequest ==
    /\ abortController' = "null"
    /\ isRequestInProgress' = FALSE
    /\ UNCHANGED <<authOps, hdrVars, rateVars, rqVars, jsonVars, storeVars>>

\* C29: at most one operation of the hook is unfinished at any time, and a
\* call made while an earlier operation was unfinished was answered
\* REQUEST_IN_PROGRESS without a call of AuthService.
C29_OneOperationAtATime ==
    /\ Cardinality({i \in 1..Len(authOps) : AuthUnfinished(authOps[i])}) <= 1
    /\ \A i \in 1..Len(authOps) :
          authOps[i].busy =>
              /\ authOps[i].result = "REQUEST_IN_PROGRESS"
              /\ ~authOps[i].service

\* ------------------------------------------------------------------------
\* The rate-limit route (app/api/rate-limit/route.js)
\* ------------------------------------------------------------------------

RATE_LIMIT_WINDOW == 900000
MAX_ATTEMPTS == 10

\* The age beyond which the periodic cleanup drops an entry.
CleanupAge == 3600000

\* Bounds: requests made, and the server's clock.
MaxRequests == 12
MaxRateTime == 5400002

\* The times that may pass between two steps.
RateGaps == {RATE_LIMIT_WINDOW, RATE_LIMIT_WINDOW + 1, CleanupAge + 1}

RateInit ==
    /\ rateNow = 0
    /\ attempts = <<>>
    /\ rateResponse = [status |-> NoStatus]
    /\ rateRequests = 0
    /\ rateRun = 0
    /\ ratePrev = 0

\* A mutant of RateStale: the window is counted from its start.
RateStaleFixedWindow(entry, time) == entry.windowStart < time - RATE_LIMIT_WINDOW

\* `tokenAttempts.lastAttempt < windowStart` with windowStart = now - RATE_LIMIT_WINDOW
RateStale(entry, time) == entry.lastAttempt < time - RATE_LIMIT_WINDOW

\* The entry POST stores for the key: a stale entry is deleted, a missing one
\* starts at count 0, and the request is counted.
RateCounted(map, time) ==
    LET kept == IF map # <<>> /\ RateStale(map[1], time) THEN <<>> ELSE map
        currentAttempts == IF kept # <<>> THEN kept[1]
                           ELSE [count |-> 0, lastAttempt |-> time, windowStart |-> time]
        restarted == IF RateStale(currentAttempts, time)
                     THEN [currentAttempts EXCEPT !.count = 0, !.windowStart = time]
                     ELSE currentAttempts
    IN  [restarted EXCEPT !.count = @ + 1, !.lastAttempt = time]

\* The answer POST gives for the stored entry.
RateAnswer(entry) ==
    IF entry.count > MAX_ATTEMPTS
    THEN [status |-> 429, allowed |-> FALSE,
          resetTime |-> entry.windowStart + RATE_LIMIT_WINDOW]
    ELSE [status |-> 200, allowed |-> TRUE, remaining |-> MAX_ATTEMPTS - entry.count]

\* POST with a well-formed body, for the one key.
RatePost ==
    /\ rateRequests < MaxRequests
    /\ attempts' = <<RateCounted(attempts, rateNow)>>
    /\ rateResponse' = RateAnswer(attempts'[1])
    /\ rateRequests' = rateRequests + 1
    /\ rateRun' = IF rateRequests > 0 /\ rateNow - ratePrev <= RATE_LIMIT_WINDOW
                  THEN rateRun + 1 ELSE 1
    /\ ratePrev' = rateNow
    /\ UNCHANGED <<rateNow, hdrVars, authVars, rqVars, jsonVars, storeVars>>

\* The setInterval callback: entries not used for an hour are dropped.
RateCleanup ==
    /\ attempts' = SelectSeq(attempts, LAMBDA e : ~(e.lastAttempt < rateNow - CleanupAge))
    /\ UNCHANGED <<rateNow, rateResponse, rateRequests, rateRun, ratePrev>>
    /\ UNCHANGED <<hdrVars, authVars, rqVars, jsonVars, storeVars>>

\* Time passes on the server.
RateTick ==
    /\ \E gap \in RateGaps :
          /\ rateNow + gap <= MaxRateTime
          /\ rateNow' = rateNow + gap
    /\ UNCHANGED <<attempts, rateResponse, rateRequests, rateRun, ratePrev>>
    /\ UNCHANGED <<hdrVars, authVars, rqVars, jsonVars, storeVars>>

\* C30: a request is allowed, with remaining = 10 - its position, exactly
\* when it is among the first 10 of its run (the requests that each came
\* within 15 minutes of the one before); every later one of the run is
\* answered 429; a run, and the count, starts anew only with a request that
\* comes more than 15 minutes after the previous one.
C30_FirstTenOfARunAllowed ==
    rateResponse.status # NoStatus =>
        /\ attempts # <<>> => attempts[1].count = rateRun
        /\ IF rateRun <= MAX_ATTEMPTS
           THEN /\ rateResponse.status = 200
                /\ rateResponse.allowed
                /\ rateResponse.remaining = MAX_ATTEMPTS - rateRun
           ELSE /\ rateResponse.status = 429
                /\ ~rateResponse.allowed

\* C30 witness: the eleventh request of a run that lasted longer than the
\* window was answered 429.
C30_Witness ==
    /\ rateResponse.status = 429
    /\ rateRun = MAX_ATTEMPTS + 1
    /\ attempts # <<>>
    /\ attempts[1].lastAttempt - attempts[1].windowStart > RATE_LIMIT_WINDOW

Init == RqInit /\ JsonInit /\ StoreIdle /\ HdrIdle /\ AuthInit /\ RateInit

InitStores == RqInit /\ JsonInit /\ StoreInit /\ HdrIdle /\ AuthInit /\ RateInit

InitHeaders == RqInit /\ JsonInit /\ StoreIdle /\ HdrInit /\ AuthInit /\ RateInit

NextHeaders ==
    \/ HdrClientRequest
    \/ HdrServerRequest
    \/ HdrJsonRequest
    \/ HdrClientAuthRequest

NextAuth ==
    \/ Login
    \/ LoginOtp
    \/ VerifyOTP
    \/ SetPersonalInfo
    \/ AuthServiceSettles
    \/ SignInSettles
    \/ CancelRequest

NextRate ==
    \/ RatePost
    \/ RateCleanup
    \/ RateTick

NextReq ==
    \/ RqCall
    \/ RqFetchSettles
    \/ RqTimeout
    \/ RqDelayElapsed

NextJson ==
    \/ JsonRequest
    \/ JsonFetchSettles
    \/ JsonDelayElapsed
    \/ JsonCancelAll
    \/ Tick

NextStores ==
    \/ StoreSetCached
    \/ StoreGetCached
    \/ MemSet
    \/ MemGet
    \/ MemHas
    \/ MemDelete
    \/ MemClear
    \/ StoreTick

\* No call of JsonApiClient.request was made yet.
JsonIdle == callers = <<>> /\ ops = <<>> /\ now = 0

\* No call of clientRequest / serverRequest was made yet.
RqIdle == rqPc = "idle"

\* A run exercises either one call of clientRequest / serverRequest or the
\* JsonApiClient: the two share no state.
NextEither ==
    \/ JsonIdle /\ NextReq
    \/ RqIdle /\ NextJson

\* One call of clientRequest or serverRequest.
SpecReq == Init /\ [][NextReq]_vars

\* The shared JsonApiClient and its callers.
SpecJson == Init /\ [][NextJson]_vars

\* The stores driven through their own operations.
SpecStores == InitStores /\ [][NextStores]_vars

\* Either request path.
SpecEither == Init /\ [][NextEither]_vars

\* One request's headers, built at any of the four sites.
SpecHeaders == InitHeaders /\ [][NextHeaders]_vars

\* One useAuth hook instance and its callers.
SpecAuth == Init /\ [][NextAuth]_vars

\* The rate-limit route serving one key.
SpecRate == Init /\ [][NextRate]_vars

\* One call of clientRequest or serverRequest when every timer fires (the
\* timeout timer while it is pending, the backoff timer); the network may
\* leave a fetch unanswered.
SpecReqFair ==
    /\ Init
    /\ [][NextReq]_vars
    /\ WF_vars(RqTimeout)
    /\ WF_vars(RqDelayElapsed)

\* The JsonApiClient when every fetch is answered or aborted by its timer and
\* every backoff timer fires.
SpecJsonFair ==
    /\ Init
    /\ [][NextJson]_vars
    /\ \A i \in 1..MaxOps : WF_vars(JsonFetchSettlesOp(i)) /\ WF_vars(JsonDelayElapsedOp(i))

====
